---------------------------- MODULE Spec2Model ----------------------------
(***************************************************************************)
(* Model of the analyze-dart action (src/src/index.js): run() resolves the *)
(* working directory, runs the analysis stage, then the format stage,      *)
(* then decides pass/fail.  Text is modelled as sequences of one-character *)
(* strings so that trim, split, includes, endsWith, replace, toLowerCase,  *)
(* substring and the template strings are computed as JavaScript computes  *)
(* them.                                                                   *)
(***************************************************************************)
EXTENDS Integers, Sequences, FiniteSets, TLC

VARIABLES
    pc,                 \* position of run() / analyze() / format()
    workingDirectory,   \* run: const workingDirectory
    output,             \* analyze/format: let output (the running stage's buffer)
    analyzeOutput,      \* text the analyzer had written when it exited
    formatOutput,       \* text the formatter had written when it exited
    lines,              \* analyze/format: const lines
    idx,                \* position of the for..of loop in lines (1-based)
    errorCount,         \* analyze: let errorCount
    warningCount,       \* analyze/format: let warningCount
    infoCount,          \* analyze: let infoCount
    markdownTable,      \* analyze/format: rows pushed after the header row
    filesWithStyleIssues, \* format: const filesWithStyleIssues
    lineLength,         \* format: core.getInput('line-length')
    analyzeErrorCount,  \* run: results destructured from analyze()
    analyzeWarningCount,
    analyzeInfoCount,
    formatWarningCount, \* run: result of format()
    failOnInfosInput,   \* core.getInput('fail-on-infos')
    failOnWarningsInput, \* core.getInput('fail-on-warnings')
    error,              \* the exception on its way to run's catch block
    calls,              \* external calls made so far, in order
    summaryFile,        \* what core.summary.write() has written
    chunks              \* data events delivered to the listeners so far

vars == <<pc, workingDirectory, output, analyzeOutput, formatOutput, lines, idx,
          errorCount, warningCount, infoCount, markdownTable, filesWithStyleIssues,
          lineLength, analyzeErrorCount, analyzeWarningCount, analyzeInfoCount,
          formatWarningCount, failOnInfosInput, failOnWarningsInput, error, calls,
          summaryFile, chunks>>

----------------------------------------------------------------------------
(* Bounds *)

\* Data events (stdout and stderr together, both stages) delivered in one run.
MaxChunks == 3

----------------------------------------------------------------------------
(* Characters and literal strings of the source *)

LF == "\n"
CR == "\r"
SP == " "
TAB == "\t"

STR_ERROR ==
    <<"E", "R", "R", "O", "R">>
STR_WARNING ==
    <<"W", "A", "R", "N", "I", "N", "G">>
dataDelimiter == "|"
DartSuffix ==
    <<".", "d", "a", "r", "t">>
LintsUrlPrefix ==
    <<"h", "t", "t", "p", "s", ":", "/", "/", "d", "a", "r", "t", "-", "l", "a", "n",
      "g", ".", "g", "i", "t", "h", "u", "b", ".", "i", "o", "/", "l", "i", "n", "t",
      "e", "r", "/", "l", "i", "n", "t", "s", "/">>
HtmlSuffix ==
    <<".", "h", "t", "m", "l">>
DiagnosticsUrlPrefix ==
    <<"h", "t", "t", "p", "s", ":", "/", "/", "d", "a", "r", "t", ".", "d", "e", "v",
      "/", "t", "o", "o", "l", "s", "/", "d", "i", "a", "g", "n", "o", "s", "t", "i",
      "c", "-", "m", "e", "s", "s", "a", "g", "e", "s", "#">>
MoreDetails ==
    <<" ", "F", "o", "r", " ", "m", "o", "r", "e", " ", "d", "e", "t", "a", "i", "l",
      "s", ",", " ", "s", "e", "e", " ">>
StyleMessageHead ==
    <<"F", "i", "l", "e", " ", "i", "s", " ", "a", "n", " ", "i", "n", "v", "a", "l",
      "i", "d", " ", "s", "t", "y", "l", "e", " ", "f", "o", "r", "m", "a", "t", ".",
      " ", "R", "u", "n", " ", "'">>
StyleMessageTail ==
    <<"'", " ", "l", "o", "c", "a", "l", "l", "y", " ", "t", "o", " ", "c", "o", "r",
      "r", "e", "c", "t", ".", " ", "F", "o", "r", " ", "m", "o", "r", "e", " ", "d",
      "e", "t", "a", "i", "l", "s", ",", " ", "s", "e", "e", " ", "h", "t", "t", "p",
      "s", ":", "/", "/", "d", "a", "r", "t", ".", "d", "e", "v", "/", "g", "u", "i",
      "d", "e", "s", "/", "l", "a", "n", "g", "u", "a", "g", "e", "/", "e", "f", "f",
      "e", "c", "t", "i", "v", "e", "-", "d", "a", "r", "t", "/", "s", "t", "y", "l",
      "e", "#", "f", "o", "r", "m", "a", "t", "t", "i", "n", "g">>
UndefinedText ==
    <<"u", "n", "d", "e", "f", "i", "n", "e", "d">>
AnalyzeCommandLine ==
    <<"d", "a", "r", "t", " ", "a", "n", "a", "l", "y", "z", "e", " ", "-", "-", "f",
      "o", "r", "m", "a", "t", " ", "m", "a", "c", "h", "i", "n", "e", " ", ".">>
IssueWord ==
    <<" ", "i", "s", "s", "u", "e">>
FoundWord ==
    <<" ", "f", "o", "u", "n", "d", ".">>
LineLengthFlag ==
    <<"-", "-", "l", "i", "n", "e", "-", "l", "e", "n", "g", "t", "h">>
\* line.substring(8): the length of the "Changed " label
ChangedPrefixLength == 8

UpperCaseLetters ==
    <<"A", "B", "C", "D", "E", "F", "G", "H", "I", "J", "K", "L", "M",
      "N", "O", "P", "Q", "R", "S", "T", "U", "V", "W", "X", "Y", "Z">>
LowerCaseLetters ==
    <<"a", "b", "c", "d", "e", "f", "g", "h", "i", "j", "k", "l", "m",
      "n", "o", "p", "q", "r", "s", "t", "u", "v", "w", "x", "y", "z">>
DecimalDigits == <<"0", "1", "2", "3", "4", "5", "6", "7", "8", "9">>

----------------------------------------------------------------------------
(* JavaScript string operations *)

IsWhitespace(c) == c \in {SP, TAB, LF, CR}

\* position of the first character at or after i that is not whitespace
RECURSIVE FirstBlackFrom(_, _)
FirstBlackFrom(s, i) ==
    IF i <= Len(s) /\ IsWhitespace(s[i]) THEN FirstBlackFrom(s, i + 1) ELSE i

\* position of the last character at or before i that is not whitespace
RECURSIVE LastBlackFrom(_, _)
LastBlackFrom(s, i) ==
    IF i >= 1 /\ IsWhitespace(s[i]) THEN LastBlackFrom(s, i - 1) ELSE i

TrimStart(s) == SubSeq(s, FirstBlackFrom(s, 1), Len(s))

TrimEnd(s) == SubSeq(s, 1, LastBlackFrom(s, Len(s)))

\* String.prototype.trim
Trim(s) == TrimEnd(TrimStart(s))

\* s.startsWith(p) at 1-based position i
MatchesAt(s, p, i) ==
    /\ i + Len(p) - 1 <= Len(s)
    /\ \A k \in 1..Len(p) : s[i + k - 1] = p[k]

\* 1-based position of the first occurrence of p in s at or after i,
\* 0 when there is none
RECURSIVE IndexFrom(_, _, _)
IndexFrom(s, p, i) ==
    IF i + Len(p) - 1 > Len(s) THEN 0
    ELSE IF MatchesAt(s, p, i) THEN i
    ELSE IndexFrom(s, p, i + 1)

\* String.prototype.indexOf, 1-based, 0 when there is no occurrence
IndexOf(s, p) == IndexFrom(s, p, 1)

\* String.prototype.includes
Includes(s, p) == IndexOf(s, p) # 0

\* String.prototype.endsWith
EndsWith(s, p) == Len(p) <= Len(s) /\ MatchesAt(s, p, Len(s) - Len(p) + 1)

\* String.prototype.substring(n)
Substring(s, n) == SubSeq(s, n + 1, Len(s))

\* String.prototype.replace(pattern, replacement) with a string pattern:
\* only the first occurrence is replaced
Replace(s, p, r) ==
    LET i == IndexOf(s, p)
    IN  IF i = 0 THEN s
        ELSE SubSeq(s, 1, i - 1) \o r \o SubSeq(s, i + Len(p), Len(s))

\* String.prototype.split(separator) with a one-character separator
RECURSIVE SplitFrom(_, _, _)
SplitFrom(s, d, from) ==
    LET i == IndexFrom(s, <<d>>, from)
    IN  IF i = 0 THEN <<SubSeq(s, from, Len(s))>>
        ELSE <<SubSeq(s, from, i - 1)>> \o SplitFrom(s, d, i + 1)

Split(s, d) == SplitFrom(s, d, 1)

\* String.prototype.split(/\r?\n/)
RECURSIVE SplitLinesFrom(_, _)
SplitLinesFrom(s, from) ==
    LET i == IndexFrom(s, <<LF>>, from)
        e == IF i > from /\ s[i - 1] = CR THEN i - 2 ELSE i - 1
    IN  IF i = 0 THEN <<SubSeq(s, from, Len(s))>>
        ELSE <<SubSeq(s, from, e)>> \o SplitLinesFrom(s, i + 1)

SplitLines(s) == SplitLinesFrom(s, 1)

LowerChar(c) ==
    IF \E k \in 1..Len(UpperCaseLetters) : UpperCaseLetters[k] = c
    THEN LowerCaseLetters[CHOOSE k \in 1..Len(UpperCaseLetters) : UpperCaseLetters[k] = c]
    ELSE c

\* String.prototype.toLowerCase
ToLowerCase(s) == [k \in 1..Len(s) |-> LowerChar(s[k])]

DigitValue(c) == (CHOOSE k \in 1..Len(DecimalDigits) : DecimalDigits[k] = c) - 1
IsDigit(c) == \E k \in 1..Len(DecimalDigits) : DecimalDigits[k] = c

NaN == "NaN"

RECURSIVE ParseDigits(_, _)
ParseDigits(s, acc) ==
    IF s # <<>> /\ IsDigit(Head(s))
    THEN ParseDigits(Tail(s), 10 * acc + DigitValue(Head(s)))
    ELSE acc

\* parseInt(s): leading whitespace skipped, the longest prefix of digits read,
\* NaN when there is none (and for undefined, which reads as "undefined")
ParseInt(s) ==
    LET t == TrimStart(s)
        u == IF t # <<>> /\ Head(t) \in {"+", "-"} THEN Tail(t) ELSE t
    IN  IF u # <<>> /\ IsDigit(Head(u))
        THEN IF Head(t) = "-" THEN 0 - ParseDigits(u, 0) ELSE ParseDigits(u, 0)
        ELSE NaN

\* template-literal conversion of a non-negative integer
RECURSIVE NumberToString(_)
NumberToString(n) ==
    IF n < 10 THEN <<DecimalDigits[n + 1]>>
    ELSE NumberToString(n \div 10) \o <<DecimalDigits[(n % 10) + 1]>>

\* split(' ') and join(' ') on argument lists
RECURSIVE Join(_, _)
Join(parts, sep) ==
    IF parts = <<>> THEN <<>>
    ELSE IF Len(parts) = 1 THEN parts[1]
    ELSE parts[1] \o sep \o Join(Tail(parts), sep)

----------------------------------------------------------------------------
(* Inputs of a run *)

W1 ==
    <<"/", "w">>
W2 ==
    <<"/", "w", "/", "w">>
\* values path.resolve(GITHUB_WORKSPACE, 'working-directory') can return
WorkingDirectories == {W1, W2}

\* values of the inputs fail-on-infos and fail-on-warnings
FlagInputs == {<<>>, <<"t", "r", "u", "e">>, <<"f", "a", "l", "s", "e">>}

\* values of the input line-length
LineLengthInputs == {<<>>, <<"8", "0">>}

\* Data events the analyzer's stdout/stderr can deliver: a complete ERROR
\* line with a lower-case rule, a complete WARNING line with an upper-case
\* rule whose path repeats /w, fragments from which 2- to 8-field lines
\* are assembled, a bare line break and a blank.
ErrorLine ==
    <<"E", "R", "R", "O", "R", "|", "L", "I", "N", "T", "|", "p", "r", "e", "f", "e",
      "r", "_", "c", "o", "n", "s", "t", "|", "/", "w", "/", "l", "i", "b", "/", "a",
      ".", "d", "a", "r", "t", "|", "3", "|", "7", "|", "5", "|", "U", "s", "e", " ",
      "c", "o", "n", "s", "t", ".", LF>>
WarningLine ==
    <<"W", "A", "R", "N", "I", "N", "G", "|", "S", "T", "A", "T", "I", "C", "_", "W",
      "A", "R", "N", "I", "N", "G", "|", "D", "E", "A", "D", "_", "C", "O", "D", "E",
      "|", "/", "w", "/", "w", "/", "b", ".", "d", "a", "r", "t", "|", "1", "2", "|",
      "1", "|", "4", "|", "D", "e", "a", "d", " ", "c", "o", "d", "e", ".", CR, LF>>
ShortInfo ==
    <<"I", "N", "F", "O", "|", "H", "I", "N", "T">>
RulePart ==
    <<"|", "T", "o", "d", "o">>
TailPart ==
    <<"|", "/", "w", "/", "c", ".", "d", "a", "r", "t", "|", "2", "0", "|", "4", "|",
      "1", "|", "F", "i", "x", ".">>
AnalyzeData == {ErrorLine, WarningLine, ShortInfo, RulePart, TailPart, <<LF>>, <<SP>>}

\* Data events the formatter's stdout/stderr can deliver.
ChangedA ==
    <<"C", "h", "a", "n", "g", "e", "d", " ", "l", "i", "b", "/", "a", ".", "d", "a",
      "r", "t", LF>>
ChangedB ==
    <<"C", "h", "a", "n", "g", "e", "d", " ", "b", ".", "d", "a", "r", "t">>
FormattedLine ==
    <<"F", "o", "r", "m", "a", "t", "t", "e", "d", " ", "b", ".", "d", "a", "r", "t",
      " ", "f", "i", "l", "e", "s", ".", CR, LF>>
FormatData == {ChangedA, ChangedB, FormattedLine, <<SP>>}

----------------------------------------------------------------------------
(* Values and records *)

\* the JavaScript value undefined (not a string)
Undefined == <<"undefined value">>

\* conversion of a value inside a template literal
TemplateString(v) == IF v = Undefined THEN UndefinedText ELSE v

\* lineData[i] with JavaScript's 0-based index
Element(lineData, i) == IF i < Len(lineData) THEN lineData[i + 1] ELSE Undefined

NoError == [name |-> "none", message |-> <<>>]
SpawnError(tool) ==
    [name |-> "Error", message |-> <<"Unable to locate executable file: ", tool>>]
ResolveError ==
    [name |-> "TypeError",
     message |-> <<"The \"paths[0]\" argument must be of type string. Received undefined">>]
PropertyError(property) ==
    [name |-> "TypeError",
     message |-> <<"Cannot read properties of undefined (reading '", property, "')">>]
SummaryError ==
    [name |-> "Error",
     message |-> <<"Unable to find environment variable for $GITHUB_STEP_SUMMARY">>]

Call(api, message, properties) ==
    [api |-> api, message |-> message, properties |-> properties]

----------------------------------------------------------------------------
(* Initial state: run() has been called and has done nothing yet *)

Init ==
    /\ pc = "start"
    /\ workingDirectory = <<>>
    /\ output = <<>>
    /\ analyzeOutput = <<>>
    /\ formatOutput = <<>>
    /\ lines = <<>>
    /\ idx = 1
    /\ errorCount = 0
    /\ warningCount = 0
    /\ infoCount = 0
    /\ markdownTable = <<>>
    /\ filesWithStyleIssues = <<>>
    /\ lineLength = <<>>
    /\ analyzeErrorCount = 0
    /\ analyzeWarningCount = 0
    /\ analyzeInfoCount = 0
    /\ formatWarningCount = 0
    /\ failOnInfosInput = <<>>
    /\ failOnWarningsInput = <<>>
    /\ error = NoError
    /\ calls = <<>>
    /\ summaryFile = <<>>
    /\ chunks = 0

\* Throw without the try block around it: the exception leaves run
ThrowUncaught(e) ==
    /\ error' = e
    /\ pc' = "done"

\* throw e inside run's try block: control goes to the catch block
Throw(e) ==
    /\ error' = e
    /\ pc' = "catch"

----------------------------------------------------------------------------
(* run, first statement *)

\* path.resolve(process.env.GITHUB_WORKSPACE, core.getInput('working-directory'));
\* it throws when GITHUB_WORKSPACE is needed and not set
Resolve ==
    /\ pc = "start"
    /\ \/ /\ \E w \in WorkingDirectories : workingDirectory' = w
          /\ pc' = "analyzeStart"
          /\ UNCHANGED error
       \/ /\ Throw(ResolveError)
          /\ UNCHANGED workingDirectory
    /\ UNCHANGED <<output, analyzeOutput, formatOutput, lines, idx, errorCount,
                   warningCount, infoCount, markdownTable, filesWithStyleIssues,
                   lineLength, analyzeErrorCount, analyzeWarningCount,
                   analyzeInfoCount, formatWarningCount, failOnInfosInput,
                   failOnWarningsInput, calls, summaryFile, chunks>>

----------------------------------------------------------------------------
(* analyze(workingDirectory) *)

\* let output = ''; ... exec.exec('dart analyze', ['--format', 'machine', '.'], options);
\* exec rejects when the executable cannot be started
AnalyzeStart ==
    /\ pc = "analyzeStart"
    /\ output' = <<>>
    /\ calls' = Append(calls, Call("exec", AnalyzeCommandLine, workingDirectory))
    /\ \/ pc' = "analyzeRunning" /\ UNCHANGED error
       \/ Throw(SpawnError("dart analyze"))
    /\ UNCHANGED <<workingDirectory, analyzeOutput, formatOutput, lines, idx,
                   errorCount, warningCount, infoCount, markdownTable,
                   filesWithStyleIssues, lineLength, analyzeErrorCount,
                   analyzeWarningCount, analyzeInfoCount, formatWarningCount,
                   failOnInfosInput, failOnWarningsInput, summaryFile, chunks>>

\* options.listeners.stdout / stderr: output += data.toString()
Listen(stage, data) ==
    /\ pc = stage
    /\ chunks < MaxChunks
    /\ output' = output \o data
    /\ chunks' = chunks + 1
    /\ UNCHANGED <<pc, workingDirectory, analyzeOutput, formatOutput, lines, idx,
                   errorCount, warningCount, infoCount, markdownTable,
                   filesWithStyleIssues, lineLength, analyzeErrorCount,
                   analyzeWarningCount, analyzeInfoCount, formatWarningCount,
                   failOnInfosInput, failOnWarningsInput, error, calls, summaryFile>>

AnalyzeStdout == \E data \in AnalyzeData : Listen("analyzeRunning", data)

AnalyzeStderr == \E data \in AnalyzeData : Listen("analyzeRunning", data)

\* the analyzer exits (its exit code is ignored) and the await resumes:
\* counters to 0, lines = output.trim().split(/\r?\n/), table with its header
AnalyzeExit ==
    /\ pc = "analyzeRunning"
    /\ analyzeOutput' = output
    /\ errorCount' = 0
    /\ warningCount' = 0
    /\ infoCount' = 0
    /\ lines' = SplitLines(Trim(output))
    /\ idx' = 1
    /\ markdownTable' = <<>>
    /\ pc' = "analyzeLoop"
    /\ UNCHANGED <<workingDirectory, output, formatOutput, filesWithStyleIssues,
                   lineLength, analyzeErrorCount, analyzeWarningCount,
                   analyzeInfoCount, formatWarningCount, failOnInfosInput,
                   failOnWarningsInput, error, calls, summaryFile, chunks>>

\* LintUrl keying the diagnostics URL by the rule as written
LintUrlAsWritten(lint) ==
    IF lint = ToLowerCase(lint)
    THEN LintsUrlPrefix \o lint \o HtmlSuffix
    ELSE DiagnosticsUrlPrefix \o lint

\* const url = lint === lintLowerCase ? lints URL : diagnostics URL
LintUrl(lint) ==
    LET lintLowerCase == ToLowerCase(lint)
    IN  IF lint = lintLowerCase
        THEN LintsUrlPrefix \o lint \o HtmlSuffix
        ELSE DiagnosticsUrlPrefix \o lintLowerCase

\* RelativeFile without the replace
RelativeFileUnchanged(path, dir) == path

\* const file = lineData[3].replace(workingDirectory, '')
RelativeFile(path, dir) == Replace(path, dir, <<>>)

\* const message = `${lintMessage} For more details, see ${url}`
FindingMessage(lineData) ==
    TemplateString(Element(lineData, 7)) \o MoreDetails \o LintUrl(lineData[3])

\* const annotation = { title, file, startLine, endLine, startColumn, endColumn }
FindingAnnotation(lineData, dir) ==
    LET annotationLine == TemplateString(Element(lineData, 4))
        annotationColumn == TemplateString(Element(lineData, 5))
    IN  [title |-> "Code Analysis Finding",
         file |-> RelativeFile(lineData[4], dir),
         startLine |-> ParseInt(annotationLine),
         endLine |-> ParseInt(annotationLine),
         startColumn |-> ParseInt(annotationColumn),
         endColumn |-> ParseInt(annotationColumn)]

\* Channel without the WARNING branch
ChannelWithoutWarning(severity) ==
    IF severity = STR_ERROR THEN "error" ELSE "notice"

\* the if / else if / else on lineData[0]: the annotation channel
Channel(severity) ==
    IF severity = STR_ERROR THEN "error"
    ELSE IF severity = STR_WARNING THEN "warning"
    ELSE "notice"

StatusIcon(channel) ==
    IF channel = "error" THEN ":x:"
    ELSE IF channel = "warning" THEN ":warning:"
    ELSE ":information_source:"

\* one iteration of for (const line of lines) in analyze
AnalyzeLine ==
    /\ pc = "analyzeLoop"
    /\ idx <= Len(lines)
    /\ LET line == lines[idx]
           lineData == Split(line, dataDelimiter)
       IN  IF ~Includes(line, <<dataDelimiter>>)
           THEN \* continue
                /\ idx' = idx + 1
                /\ UNCHANGED <<pc, error, calls, markdownTable, errorCount,
                               warningCount, infoCount>>
           ELSE IF Element(lineData, 2) = Undefined
           THEN \* lint.toLowerCase() on undefined
                /\ Throw(PropertyError("toLowerCase"))
                /\ UNCHANGED <<idx, calls, markdownTable, errorCount,
                               warningCount, infoCount>>
           ELSE IF Element(lineData, 3) = Undefined
           THEN \* lineData[3].replace on undefined
                /\ Throw(PropertyError("replace"))
                /\ UNCHANGED <<idx, calls, markdownTable, errorCount,
                               warningCount, infoCount>>
           ELSE LET message == FindingMessage(lineData)
                    annotation == FindingAnnotation(lineData, workingDirectory)
                    channel == Channel(lineData[1])
                IN  /\ markdownTable' =
                          Append(markdownTable,
                                 <<StatusIcon(channel), annotation.file,
                                   Element(lineData, 4), Element(lineData, 5), message>>)
                    /\ calls' = Append(calls, Call(channel, message, annotation))
                    /\ errorCount' = errorCount + (IF channel = "error" THEN 1 ELSE 0)
                    /\ warningCount' = warningCount + (IF channel = "warning" THEN 1 ELSE 0)
                    /\ infoCount' = infoCount + (IF channel = "notice" THEN 1 ELSE 0)
                    /\ idx' = idx + 1
                    /\ UNCHANGED <<pc, error>>
    /\ UNCHANGED <<workingDirectory, output, analyzeOutput, formatOutput, lines,
                   filesWithStyleIssues, lineLength, analyzeErrorCount,
                   analyzeWarningCount, analyzeInfoCount, formatWarningCount,
                   failOnInfosInput, failOnWarningsInput, summaryFile, chunks>>

\* await core.summary.addHeading(heading).addTable(table).write(): the write
\* throws when the step-summary file is not available
WriteSummary(heading, table) ==
    \/ /\ summaryFile' = Append(summaryFile, [heading |-> heading, table |-> table])
       /\ calls' = Append(calls, Call("summary.write", <<>>, heading))
       /\ UNCHANGED error
    \/ /\ error' = SummaryError
       /\ UNCHANGED <<summaryFile, calls>>

\* after the loop: write the summary, return [errorCount, warningCount, infoCount]
\* to run, which goes on to call format
AnalyzeReturn ==
    /\ pc = "analyzeLoop"
    /\ idx > Len(lines)
    /\ WriteSummary("Global Project Analysis Issues", markdownTable)
    /\ IF error' = NoError
       THEN /\ analyzeErrorCount' = errorCount
            /\ analyzeWarningCount' = warningCount
            /\ analyzeInfoCount' = infoCount
            /\ pc' = "formatStart"
       ELSE /\ pc' = "catch"
            /\ UNCHANGED <<analyzeErrorCount, analyzeWarningCount, analyzeInfoCount>>
    /\ UNCHANGED <<workingDirectory, output, analyzeOutput, formatOutput, lines, idx,
                   errorCount, warningCount, infoCount, markdownTable,
                   filesWithStyleIssues, lineLength, formatWarningCount,
                   failOnInfosInput, failOnWarningsInput, chunks>>

----------------------------------------------------------------------------
(* format(workingDirectory) *)

\* const args = ['format', '--output=none']; if (lineLength) push both; push('.')
FormatArgs(length) ==
    <<<<"f", "o", "r", "m", "a", "t">>,
      <<"-", "-", "o", "u", "t", "p", "u", "t", "=", "n", "o", "n", "e">>>>
    \o (IF length # <<>> THEN <<LineLengthFlag, length>> ELSE <<>>)
    \o <<<<".">>>>

\* const command = `dart ${args.join(' ')}`
FormatCommand(length) == <<"d", "a", "r", "t", SP>> \o Join(FormatArgs(length), <<SP>>)

\* let output = ''; const lineLength = core.getInput('line-length'); ...
\* exec.exec('dart', args, options); exec rejects when dart cannot be started
FormatStart ==
    /\ pc = "formatStart"
    /\ output' = <<>>
    /\ \E length \in LineLengthInputs :
          /\ lineLength' = length
          /\ calls' = Append(calls, Call("exec", FormatCommand(length), workingDirectory))
    /\ \/ pc' = "formatRunning" /\ UNCHANGED error
       \/ Throw(SpawnError("dart"))
    /\ UNCHANGED <<workingDirectory, analyzeOutput, formatOutput, lines, idx,
                   errorCount, warningCount, infoCount, markdownTable,
                   filesWithStyleIssues, analyzeErrorCount, analyzeWarningCount,
                   analyzeInfoCount, formatWarningCount, failOnInfosInput,
                   failOnWarningsInput, summaryFile, chunks>>

FormatStdout == \E data \in FormatData : Listen("formatRunning", data)

FormatStderr == \E data \in FormatData : Listen("formatRunning", data)

\* the formatter exits and the await resumes: warningCount = 0,
\* lines = output.trim().split(/\r?\n/), filesWithStyleIssues = []
FormatExit ==
    /\ pc = "formatRunning"
    /\ formatOutput' = output
    /\ warningCount' = 0
    /\ lines' = SplitLines(Trim(output))
    /\ idx' = 1
    /\ filesWithStyleIssues' = <<>>
    /\ pc' = "formatLoop"
    /\ UNCHANGED <<workingDirectory, output, analyzeOutput, errorCount, infoCount,
                   markdownTable, lineLength, analyzeErrorCount,
                   analyzeWarningCount, analyzeInfoCount, formatWarningCount,
                   failOnInfosInput, failOnWarningsInput, error, calls,
                   summaryFile, chunks>>

\* IsChangedFile with includes in place of endsWith
IsChangedFileAnywhere(line) == Includes(line, DartSuffix)

\* if (!line.endsWith('.dart')) continue;
IsChangedFile(line) == EndsWith(line, DartSuffix)

\* const file = line.substring(8)
ChangedFile(line) == Substring(line, ChangedPrefixLength)

\* the static message, naming the command that was run
StyleMessage(length) == StyleMessageHead \o FormatCommand(length) \o StyleMessageTail

\* const annotation = { title, file: `/${file}` }
StyleAnnotation(line) ==
    [title |-> "Code Analysis Style Finding", file |-> <<"/">> \o ChangedFile(line)]

\* one iteration of for (const line of lines) in format
FormatLine ==
    /\ pc = "formatLoop"
    /\ idx <= Len(lines)
    /\ LET line == lines[idx]
       IN  IF ~IsChangedFile(line)
           THEN UNCHANGED <<calls, filesWithStyleIssues, warningCount>>
           ELSE /\ calls' = Append(calls, Call("warning", StyleMessage(lineLength),
                                                StyleAnnotation(line)))
                /\ filesWithStyleIssues' = Append(filesWithStyleIssues, ChangedFile(line))
                /\ warningCount' = warningCount + 1
    /\ idx' = idx + 1
    /\ UNCHANGED <<pc, workingDirectory, output, analyzeOutput, formatOutput, lines,
                   errorCount, infoCount, markdownTable, lineLength,
                   analyzeErrorCount, analyzeWarningCount, analyzeInfoCount,
                   formatWarningCount, failOnInfosInput, failOnWarningsInput,
                   error, summaryFile, chunks>>

\* after the loop: build the table from filesWithStyleIssues, write the
\* summary, return warningCount to run
FormatReturn ==
    /\ pc = "formatLoop"
    /\ idx > Len(lines)
    /\ markdownTable' =
          [k \in 1..Len(filesWithStyleIssues) |-> <<":warning:", filesWithStyleIssues[k]>>]
    /\ WriteSummary("Global Project Style Issues", markdownTable')
    /\ IF error' = NoError
       THEN /\ formatWarningCount' = warningCount
            /\ pc' = "decide"
       ELSE /\ pc' = "catch"
            /\ UNCHANGED formatWarningCount
    /\ UNCHANGED <<workingDirectory, output, analyzeOutput, formatOutput, lines, idx,
                   errorCount, warningCount, infoCount, filesWithStyleIssues,
                   lineLength, analyzeErrorCount, analyzeWarningCount,
                   analyzeInfoCount, failOnInfosInput, failOnWarningsInput, chunks>>

----------------------------------------------------------------------------
(* run, after both stages *)

\* core.getInput(name) === 'true'
IsTrue(input) == input = <<"t", "r", "u", "e">>

\* SummaryMessage without the singular
SummaryMessageAlwaysPlural(issueCount) ==
    NumberToString(issueCount) \o IssueWord \o <<"s">> \o FoundWord

\* const message = `${issueCount} issue${issueCount === 1 ? '' : 's'} found.`
SummaryMessage(issueCount) ==
    NumberToString(issueCount) \o IssueWord
    \o (IF issueCount = 1 THEN <<>> ELSE <<"s">>) \o FoundWord

\* ShouldFail with && between the two flags
ShouldFailBothFlags(errors, issueCount, failOnInfos, failOnWarnings) ==
    errors > 0 \/ ((failOnInfos /\ failOnWarnings) /\ issueCount > 0)

\* analyzeErrorCount > 0 || ((failOnInfos || failOnWarnings) && issueCount > 0)
ShouldFail(errors, issueCount, failOnInfos, failOnWarnings) ==
    errors > 0 \/ ((failOnInfos \/ failOnWarnings) /\ issueCount > 0)

\* Decide without the else: a failed run is logged as well
DecideWithoutElse ==
    /\ pc = "decide"
    /\ \E infos \in FlagInputs, warnings \in FlagInputs :
          LET issueCount == analyzeErrorCount + analyzeWarningCount
                            + analyzeInfoCount + formatWarningCount
              message == NumberToString(issueCount) \o IssueWord
                         \o (IF issueCount = 1 THEN <<>> ELSE <<"s">>) \o FoundWord
              failed == analyzeErrorCount > 0
                        \/ ((infos = <<"t", "r", "u", "e">>
                             \/ warnings = <<"t", "r", "u", "e">>) /\ issueCount > 0)
          IN  /\ failOnInfosInput' = infos
              /\ failOnWarningsInput' = warnings
              /\ calls' =
                    (IF failed THEN Append(calls, Call("setFailed", message, <<>>))
                     ELSE calls)
                    \o <<Call("console.log", message, <<>>)>>
    /\ pc' = "done"
    /\ UNCHANGED <<workingDirectory, output, analyzeOutput, formatOutput, lines, idx,
                   errorCount, warningCount, infoCount, markdownTable,
                   filesWithStyleIssues, lineLength, analyzeErrorCount,
                   analyzeWarningCount, analyzeInfoCount, formatWarningCount,
                   error, summaryFile, chunks>>

\* issueCount, the two flags, the message, then setFailed or console.log
Decide ==
    /\ pc = "decide"
    /\ \E infos \in FlagInputs, warnings \in FlagInputs :
          LET issueCount == analyzeErrorCount + analyzeWarningCount
                            + analyzeInfoCount + formatWarningCount
              message == SummaryMessage(issueCount)
          IN  /\ failOnInfosInput' = infos
              /\ failOnWarningsInput' = warnings
              /\ calls' =
                    Append(calls,
                           Call(IF ShouldFail(analyzeErrorCount, issueCount,
                                              IsTrue(infos), IsTrue(warnings))
                                THEN "setFailed" ELSE "console.log",
                                message, <<>>))
    /\ pc' = "done"
    /\ UNCHANGED <<workingDirectory, output, analyzeOutput, formatOutput, lines, idx,
                   errorCount, warningCount, infoCount, markdownTable,
                   filesWithStyleIssues, lineLength, analyzeErrorCount,
                   analyzeWarningCount, analyzeInfoCount, formatWarningCount,
                   error, summaryFile, chunks>>

\* catch (error) { core.setFailed(error.message); }
Catch ==
    /\ pc = "catch"
    /\ calls' = Append(calls, Call("setFailed", error.message, <<>>))
    /\ pc' = "done"
    /\ UNCHANGED <<workingDirectory, output, analyzeOutput, formatOutput, lines, idx,
                   errorCount, warningCount, infoCount, markdownTable,
                   filesWithStyleIssues, lineLength, analyzeErrorCount,
                   analyzeWarningCount, analyzeInfoCount, formatWarningCount,
                   failOnInfosInput, failOnWarningsInput, error, summaryFile, chunks>>

----------------------------------------------------------------------------

Next ==
    \/ Resolve
    \/ AnalyzeStart
    \/ AnalyzeStdout
    \/ AnalyzeStderr
    \/ AnalyzeExit
    \/ AnalyzeLine
    \/ AnalyzeReturn
    \/ FormatStart
    \/ FormatStdout
    \/ FormatStderr
    \/ FormatExit
    \/ FormatLine
    \/ FormatReturn
    \/ Decide
    \/ Catch

Spec == Init /\ [][Next]_vars

----------------------------------------------------------------------------
(* What the properties below read off a state *)

IsAnnotation(c) == c.api \in {"error", "warning", "notice"}
IsReport(c) == c.api \in {"setFailed", "console.log"}
IsFormatExec(c) == c.api = "exec" /\ c.message # AnalyzeCommandLine
IsAnalysisCall(c) ==
    \/ c.api = "exec" /\ c.message = AnalyzeCommandLine
    \/ IsAnnotation(c) /\ c.properties.title = "Code Analysis Finding"
    \/ c.api = "summary.write" /\ c.properties = "Global Project Analysis Issues"
IsStyleAnnotation(c) ==
    IsAnnotation(c) /\ c.properties.title = "Code Analysis Style Finding"

Reports == SelectSeq(calls, IsReport)
AnalysisAnnotations ==
    SelectSeq(calls, LAMBDA c : IsAnnotation(c) /\ IsAnalysisCall(c))
StyleAnnotations == SelectSeq(calls, IsStyleAnnotation)

FormatStarted == \E i \in DOMAIN calls : IsFormatExec(calls[i])
\* analyze() has returned its counts to run
AnalysisReturned == pc = "formatStart" \/ FormatStarted
\* format() has returned its count to run
FormatReturned == pc = "decide" \/ (pc = "done" /\ error = NoError)
\* run has ended without an exception
CompletedNormally == pc = "done" /\ error = NoError

\* the lines of the analyzer's and the formatter's output as the parsers
\* take them: the whole text trimmed, then cut at line breaks
AnalyzerLines == SplitLines(Trim(analyzeOutput))
FormatterLines == SplitLines(Trim(formatOutput))
HasDelimiter(line) == \E k \in 1..Len(line) : line[k] = "|"
DataLines == SelectSeq(AnalyzerLines, HasDelimiter)
Fields(line) == Split(line, "|")
WellFormed(line) == Len(Fields(line)) >= 8
ChangedLines == SelectSeq(FormatterLines, LAMBDA l : EndsWith(l, DartSuffix))
CountWhere(seq, P(_)) == Cardinality({i \in DOMAIN seq : P(seq[i])})
IssueCount ==
    analyzeErrorCount + analyzeWarningCount + analyzeInfoCount + formatWarningCount
FlagEnabled ==
    \/ failOnInfosInput = <<"t", "r", "u", "e">>
    \/ failOnWarningsInput = <<"t", "r", "u", "e">>
ReportedFailure == LET made == Reports IN made # <<>> /\ made[Len(made)].api = "setFailed"

OneIssueText ==
    <<"1", " ", "i", "s", "s", "u", "e", " ", "f", "o", "u", "n", "d", ".">>
ZeroIssuesText ==
    <<"0", " ", "i", "s", "s", "u", "e", "s", " ", "f", "o", "u", "n", "d", ".">>
IssuesFoundText ==
    <<" ", "i", "s", "s", "u", "e", "s", " ", "f", "o", "u", "n", "d", ".">>

----------------------------------------------------------------------------
(* C1 *)

\* C1: a run that raises no exception reports failure exactly when
\* errorCount > 0, or one of the two flags is 'true' and the four counts sum
\* to more than 0; so with a flag enabled a lone style warning fails the run,
\* and with both flags off a run without errors succeeds.
C1_FailurePolicy ==
    CompletedNormally =>
        /\ Len(Reports) = 1
        /\ ReportedFailure <=>
              (analyzeErrorCount > 0 \/ (FlagEnabled /\ IssueCount > 0))
        /\ (FlagEnabled /\ IssueCount = formatWarningCount /\ formatWarningCount > 0)
              => ReportedFailure
        /\ (~FlagEnabled /\ analyzeErrorCount = 0) => ~ReportedFailure

\* a flag is on, the only issue is one style warning, and the run failed
C1_Witness ==
    /\ CompletedNormally
    /\ FlagEnabled
    /\ IssueCount = 1
    /\ formatWarningCount = 1
    /\ ReportedFailure

\* a flag is off, there are warnings but no errors, and the run succeeded
C1_WitnessSuccess ==
    /\ CompletedNormally
    /\ ~FlagEnabled
    /\ analyzeWarningCount = 2
    /\ ~ReportedFailure

----------------------------------------------------------------------------
(* C2 *)

\* C2: in a run that raises no exception the one final message is
\* "1 issue found." when the four counts sum to 1 and "<N> issues found."
\* otherwise, 0 included, whether it is reported by setFailed or by the log.
C2_SummaryMessage ==
    CompletedNormally =>
        /\ Len(Reports) = 1
        /\ Reports[1].message =
              IF IssueCount = 1 THEN OneIssueText
              ELSE IF IssueCount = 0 THEN ZeroIssuesText
              ELSE NumberToString(IssueCount) \o IssuesFoundText

\* one issue, reported as a failure, with the singular text
C2_Witness ==
    /\ CompletedNormally
    /\ IssueCount = 1
    /\ Reports = <<Call("setFailed", OneIssueText, <<>>)>>

\* no issue, reported on the log, with the plural text
C2_WitnessZero ==
    /\ CompletedNormally
    /\ IssueCount = 0
    /\ Reports = <<Call("console.log", ZeroIssuesText, <<>>)>>

----------------------------------------------------------------------------
(* C3 *)

AllWellFormed == LET data == DataLines IN \A i \in DOMAIN data : WellFormed(data[i])
\* field 0: the text before the first '|'
SeverityLabel(line) == Fields(line)[1]
IsErrorLine(line) == SeverityLabel(line) = STR_ERROR
IsWarningLine(line) == SeverityLabel(line) = STR_WARNING
IsInfoLine(line) == SeverityLabel(line) \notin {STR_ERROR, STR_WARNING}

\* C3: when every line with '|' has at least 8 fields, the counts analyze
\* returns are the numbers of such lines whose field 0 is 'ERROR', is
\* 'WARNING', and is anything else; they sum to the number of lines with
\* '|' (lines without it count nowhere), and all are 0 for empty output.
\* Read where analyze hands its counts to run (nothing assigns them later).
C3_Classification ==
    pc = "formatStart" =>
        LET data == DataLines
        IN  (\A i \in DOMAIN data : WellFormed(data[i])) =>
                /\ analyzeErrorCount = CountWhere(data, IsErrorLine)
                /\ analyzeWarningCount = CountWhere(data, IsWarningLine)
                /\ analyzeInfoCount = CountWhere(data, IsInfoLine)
                /\ analyzeErrorCount + analyzeWarningCount + analyzeInfoCount
                      = Len(data)
                /\ analyzeOutput = <<>> =>
                      /\ analyzeErrorCount = 0
                      /\ analyzeWarningCount = 0
                      /\ analyzeInfoCount = 0

\* an ERROR line, a WARNING line and a line without '|' have been counted
C3_Witness ==
    /\ pc = "formatStart"
    /\ AllWellFormed
    /\ analyzeErrorCount = 1
    /\ analyzeWarningCount = 1
    /\ Len(AnalyzerLines) > Len(DataLines)

\* a well-formed line with another label has been counted as an info
C3_WitnessInfo ==
    /\ pc = "formatStart"
    /\ AllWellFormed
    /\ analyzeInfoCount = 1

----------------------------------------------------------------------------
(* C4 *)

HasMalformedLine == LET data == DataLines IN \E i \in DOMAIN data : ~WellFormed(data[i])
ParserThrew == error \in {PropertyError("toLowerCase"), PropertyError("replace")}

\* C4: analyzer output holding a line with '|' and fewer than 8 fields raises
\* no exception in analyze: the run goes on to the format stage and ends
\* with the summary message decided from the counts.
C4_MalformedLinesDoNotCrash ==
    HasMalformedLine =>
        /\ ~ParserThrew
        /\ (pc = "done" /\ error \notin {SummaryError, SpawnError("dart")}) =>
              /\ FormatStarted
              /\ Reports = <<Call(Reports[1].api, SummaryMessage(IssueCount), <<>>)>>

\* the lines with 4 to 7 fields, which the parser does survive
C4_SurvivedShortLine ==
    /\ CompletedNormally
    /\ HasMalformedLine

----------------------------------------------------------------------------
(* C5 *)

\* path is dir followed by a '/' and more
IsUnder(path, dir) == MatchesAt(path, dir \o <<"/">>, 1)
\* field 3 of a data line, and the file of the annotation made for it
FindingPath(line) == Element(Fields(line), 3)
FindingFile(annotation) == annotation.properties.file

\* C5 as stated: the file path of a finding whose field 3 lies under the
\* working directory never contains the working directory.
C5_NeverContainsPrefix ==
    LET data == DataLines
        found == AnalysisAnnotations
    IN  \A i \in DOMAIN found :
            IsUnder(FindingPath(data[i]), workingDirectory) =>
                ~Includes(FindingFile(found[i]), workingDirectory)

\* C5 (amended): the file path of a finding whose field 3 lies under the
\* working directory is field 3 without its leading working directory,
\* removed once; it contains the working directory only when the rest of
\* the path after the prefix contains it again.  Read in the loop of
\* analyze, where every finding is emitted.
C5_PrefixRemovedOnce ==
    pc = "analyzeLoop" =>
    LET data == DataLines
        found == AnalysisAnnotations
    IN  \A i \in DOMAIN found :
            LET path == FindingPath(data[i])
                file == FindingFile(found[i])
                rest == Substring(path, Len(workingDirectory))
            IN  IsUnder(path, workingDirectory) =>
                    /\ file = rest
                    /\ workingDirectory \o file = path
                    /\ Includes(file, workingDirectory)
                          <=> Includes(rest, workingDirectory)

\* a finding under /w whose path repeats /w: the file keeps the second /w
C5_Witness ==
    LET data == DataLines
        found == AnalysisAnnotations
    IN  \E i \in DOMAIN found :
            /\ IsUnder(FindingPath(data[i]), workingDirectory)
            /\ Includes(FindingFile(found[i]), workingDirectory)

----------------------------------------------------------------------------
(* C6 *)

HasUpperCase(r) ==
    \E k \in DOMAIN r : \E u \in DOMAIN UpperCaseLetters : r[k] = UpperCaseLetters[u]
FindingRule(line) == Element(Fields(line), 2)
IsLintsUrlMessage(m, r) == EndsWith(m, MoreDetails \o LintsUrlPrefix \o r \o HtmlSuffix)
IsDiagnosticsUrlMessage(m, r) ==
    EndsWith(m, MoreDetails \o DiagnosticsUrlPrefix \o ToLowerCase(r))

\* C6: a finding's message is field 7, then " For more details, see ", then
\* one URL: the lints URL of the rule as written when the rule has no
\* upper-case character (it equals its lower-cased form), the diagnostics
\* URL of the lower-cased rule otherwise; never both.  Read in the loop of
\* analyze, where every finding is emitted.
C6_UrlSelection ==
    pc = "analyzeLoop" =>
    LET data == DataLines
        found == AnalysisAnnotations
    IN  \A i \in DOMAIN found :
        LET fields == Fields(data[i])
            r == Element(fields, 2)
            m == found[i].message
        IN  /\ HasUpperCase(r) <=> r # ToLowerCase(r)
            /\ ~HasUpperCase(r) => IsLintsUrlMessage(m, r)
            /\ HasUpperCase(r) => IsDiagnosticsUrlMessage(m, r)
            /\ ~(IsLintsUrlMessage(m, r) /\ IsDiagnosticsUrlMessage(m, r))
            /\ Len(fields) >= 8 =>
                  \/ m = fields[8] \o MoreDetails \o LintsUrlPrefix \o r \o HtmlSuffix
                  \/ m = fields[8] \o MoreDetails \o DiagnosticsUrlPrefix \o ToLowerCase(r)

\* a lower-case rule and an upper-case rule have both been annotated
C6_Witness ==
    LET data == DataLines
        found == AnalysisAnnotations
    IN  /\ \E i \in DOMAIN found :
              ~HasUpperCase(FindingRule(data[i])) /\ WellFormed(data[i])
        /\ \E i \in DOMAIN found :
              HasUpperCase(FindingRule(data[i])) /\ WellFormed(data[i])

\* a rule in mixed case has been annotated
C6_WitnessMixed ==
    LET data == DataLines
        found == AnalysisAnnotations
    IN  \E i \in DOMAIN found :
            LET r == FindingRule(data[i])
            IN  HasUpperCase(r) /\ r # ToLowerCase(r) /\ HasUpperCase(Tail(r)) = FALSE

----------------------------------------------------------------------------
(* C7 *)

EndsInDart(line) == Len(line) >= 5 /\ SubSeq(line, Len(line) - 4, Len(line)) = DartSuffix

\* C7: only formatter lines ending in '.dart' become style findings: the
\* warning annotations of the format stage are, one for one and in order,
\* the lines ending in '.dart', and the count format returns is the number
\* of such lines.
C7_FormatFiltering ==
    LET all == FormatterLines
        passed == IF pc = "formatLoop" THEN SubSeq(all, 1, idx - 1) ELSE all
        changed == SelectSeq(all, EndsInDart)
        style == StyleAnnotations
    IN  /\ pc = "formatLoop" =>
              /\ warningCount = CountWhere(passed, EndsInDart)
              /\ Len(style) = warningCount
        /\ Len(style) <= Len(changed)
        /\ \A j \in DOMAIN style :
              /\ style[j].api = "warning"
              /\ style[j].properties.file
                    = <<"/">> \o Substring(changed[j], ChangedPrefixLength)
        /\ FormatReturned =>
              /\ formatWarningCount = CountWhere(all, EndsInDart)
              /\ Len(style) = formatWarningCount

\* format has returned 1 for an output with a second line that mentions
\* a .dart file without ending in '.dart'
C7_Witness ==
    /\ FormatReturned
    /\ formatWarningCount = 1
    /\ LET all == FormatterLines
       IN  \E i \in DOMAIN all : Includes(all[i], DartSuffix) /\ ~EndsInDart(all[i])

----------------------------------------------------------------------------
(* C8 *)

AnalysisSummaryWritten ==
    \E i \in DOMAIN calls :
        calls[i].api = "summary.write" /\ IsAnalysisCall(calls[i])
\* the exception was raised inside analyze()
ThrownInAnalysis ==
    \/ error = SpawnError("dart analyze")
    \/ ParserThrew
    \/ error = SummaryError /\ ~AnalysisSummaryWritten
\* the exception was raised inside format()
ThrownInFormat ==
    \/ error = SpawnError("dart")
    \/ error = SummaryError /\ AnalysisSummaryWritten

\* C8: an exception raised in the analysis or the format stage reaches the
\* catch block of run, which reports it with setFailed(error.message): that
\* is the run's only report and its last call, no '<N> issue(s) found.'
\* message is emitted, and after an exception in the analysis stage the
\* formatter is never started.
C8_ExceptionsCaught ==
    /\ error # NoError => pc \in {"catch", "done"}
    /\ pc = "catch" => (error # NoError /\ Reports = <<>> /\ ENABLED Catch)
    /\ (ThrownInAnalysis \/ ThrownInFormat) =>
          /\ ThrownInAnalysis => ~FormatStarted
          /\ \A i \in DOMAIN calls : calls[i].message # SummaryMessage(IssueCount)
          /\ pc = "done" =>
                /\ Reports = <<Call("setFailed", error.message, <<>>)>>
                /\ calls[Len(calls)] = Reports[1]

\* the formatter could not be started after the analysis stage had
\* annotated a finding, and the run has ended
C8_Witness ==
    /\ pc = "done"
    /\ error = SpawnError("dart")
    /\ AnalysisAnnotations # <<>>

\* the parser threw in the analysis stage after annotating a finding
C8_WitnessAnalysis ==
    /\ pc = "done"
    /\ ParserThrew
    /\ AnalysisAnnotations # <<>>

----------------------------------------------------------------------------
(* C9 *)

\* C9: every call of the analysis stage (its exec, its annotations, its
\* summary) comes before the exec of the formatter; when run is about to
\* call format every data line has been annotated; the final report (setFailed or
\* the log line) is made at most once, is the last call of the run, and has
\* been made exactly once when run ends, on the normal path and on the
\* exception path.
C9_StageOrderAndSingleReport ==
    /\ \A i \in DOMAIN calls :
          IsFormatExec(calls[i]) =>
              \A j \in DOMAIN calls : IsAnalysisCall(calls[j]) => j < i
    /\ pc = "formatStart" =>
          (AnalysisSummaryWritten /\ Len(AnalysisAnnotations) = Len(DataLines))
    /\ FormatStarted => AnalysisSummaryWritten
    /\ \A i \in DOMAIN calls : IsReport(calls[i]) => i = Len(calls)
    /\ Len(Reports) <= 1
    /\ pc = "done" <=> Len(Reports) = 1

\* a normal run with annotations of both stages and one report after them
C9_Witness ==
    /\ CompletedNormally
    /\ AnalysisAnnotations # <<>>
    /\ StyleAnnotations # <<>>
    /\ Len(Reports) = 1

\* a run ended by an exception in the format stage, after an annotation
C9_WitnessException ==
    /\ pc = "done"
    /\ ThrownInFormat
    /\ AnalysisAnnotations # <<>>
    /\ Len(Reports) = 1

----------------------------------------------------------------------------
(* C10 *)

\* the loop of analyze is over, by running out of lines or by an exception
AnalyzeLoopLeft == pc \in {"formatStart", "formatRunning", "formatLoop", "decide",
                           "catch", "done"}
ChannelCount(found, channel) == CountWhere(found, LAMBDA c : c.api = channel)

\* C10: once the loop of analyze is over, the i-th line with '|' has
\* produced the i-th annotation of the stage, on the channel of its field 0,
\* and once the loop of format is over the i-th line ending in '.dart' has
\* produced the i-th warning annotation; the annotations on each channel
\* are as many as the count the stage keeps for it.
C10_OneAnnotationPerLine ==
    LET data == DataLines
        found == AnalysisAnnotations
        style == StyleAnnotations
    IN  /\ AnalyzeLoopLeft =>
              /\ Len(found) = Len(data)
              /\ \A i \in DOMAIN found :
                    found[i].api
                       = (IF IsErrorLine(data[i]) THEN "error"
                          ELSE IF IsWarningLine(data[i]) THEN "warning"
                          ELSE "notice")
        /\ AnalysisReturned =>
              /\ ChannelCount(found, "error") = analyzeErrorCount
              /\ ChannelCount(found, "warning") = analyzeWarningCount
              /\ ChannelCount(found, "notice") = analyzeInfoCount
        /\ FormatReturned =>
              /\ Len(style) = Len(ChangedLines)
              /\ Len(style) = formatWarningCount

\* the same, for the runs in which the parser does not throw
C10_UnlessParserThrew == ParserThrew \/ C10_OneAnnotationPerLine

=============================================================================
